---------------------------- MODULE Spec2Model ----------------------------
(***************************************************************************)
(* Leaffliction data preparation: the Augmentation library                 *)
(* (src/Augmentation.py, class Augmentation), the directory-mode balancing *)
(* driver (src/Augmentation.py, __main__) and the train/validation split   *)
(* script (src/split_dataset.py).                                          *)
(*                                                                         *)
(* Three programs share the module, each with its own specification:       *)
(*   SpecTransform  calls of the Augmentation methods on drawn inputs      *)
(*   SpecBalance    one directory-mode run of Augmentation.py              *)
(*   SpecSplit      runs of split_dataset.py, images added between runs    *)
(***************************************************************************)
EXTENDS Integers, Sequences, FiniteSets, TLC

VARIABLES
    \* ---- Augmentation library (one method call per step)
    op,              \* method called last, "none" before the first call
    original,        \* raster the first flip of a chain was given
    img,             \* raster given to the last flip
    axis,            \* axis argument of the last flip
    reflected_img,   \* raster returned by the last flip
    nflips,          \* flips chained so far on `original`
    shape,           \* img.shape of the input of a shape-level call
    x, y,            \* crop origin drawn by crop
    out_shape,       \* shape of the array the call returned
    raised,          \* "none", or the exception the call raised
    sample,          \* one uint8 sample given to contrast
    contrast_img,    \* the sample contrast returned for it
    \* ---- split_dataset.py
    images_dir,      \* file names in images/<class>
    train_subdir,    \* file names in training/<class>
    valid_subdir,    \* file names in validation/<class>
    subdirs_made,    \* training/<class> and validation/<class> exist
    validation_images, \* the list images[:25] of the last loop body
    training_images,   \* the list images[25:] of the last loop body
    spc,             \* "idle" between runs, "loop" inside the for loop
    todo,            \* entries of images/ the for loop has not reached
    runs,            \* completed runs of the script
    added,           \* images added to images/<class> so far
    \* ---- Augmentation.py, directory mode
    listing,         \* per class of the input root: its *.JPG stems, in
                     \* the order the file system lists them
    out,             \* per class: the files of augmented_directory/<class>,
                     \* stem -> content
    bpc,             \* "copy", "scan", "augment", "done" or "failed"
    pos,             \* index in the walk of the image the loop is at
    step,            \* in the image's body: 0 before the re-save, k before
                     \* the k-th guarded augment call
    len_largest_directory,
    applied          \* per class and listing index: the augmentation types
                     \* augment was called with for that image, in order

libVars == <<op, original, img, axis, reflected_img, nflips, shape,
             x, y, out_shape, raised, sample, contrast_img>>

splitVars == <<images_dir, train_subdir, valid_subdir, subdirs_made,
               validation_images, training_images, spc, todo, runs, added>>

balVars == <<listing, out, bpc, pos, step, len_largest_directory, applied>>

vars == <<libVars, splitVars, balVars>>

\* the class directories of the input root of Augmentation.py
Classes    == {"A", "B"}
\* the order in which the file system lists the class directories; the
\* initial states are symmetric in the two classes
ClassOrder == <<"A", "B">>

Max(a, b) == IF a >= b THEN a ELSE b
Min(a, b) == IF a <= b THEN a ELSE b

(***************************************************************************)
(* Bounds of the library model.                                            *)
(***************************************************************************)
MaxSide == 2     \* rasters given to flip have 1..MaxSide rows and columns,
                 \* and samples that are black (0) or white (U8Max)
MaxDim  == 151   \* largest side of a shape given to crop and the warps
MaxFlips == 2    \* flips chained on one raster

\* program constants
CropSize   == 100   \* crop window side, img[y:y+100, x:x+100]
WindowLo   == 50    \* fixed window [50:150, 50:150]
WindowHi   == 150
Alpha      == 2     \* cv2.addWeighted(img, 2, zeros, 0, -50)
Gamma      == -50
U8Max      == 255   \* uint8

\* Sides of the shapes drawn: every side around the offsets the code uses
\* (50, 100, 150), the smallest image, and up to MaxDim.
Sides == {1, 2} \cup ((WindowLo - 1)..(WindowLo + 1))
                \cup ((CropSize - 1)..(CropSize + 1))
                \cup ((WindowHi - 1)..MaxDim)

Rasters ==
    UNION { { [rows |-> r, cols |-> c, px |-> f] :
                f \in [((0..(r-1)) \X (0..(c-1))) -> {0, U8Max}] } :
            r \in 1..MaxSide, c \in 1..MaxSide }

NoRaster == [rows |-> 0, cols |-> 0, px |-> <<>>]

(***************************************************************************)
(* cv2.warpPerspective(img, M, (dcols, drows)) for the matrices flip       *)
(* builds, M = [[a, 0, tx], [0, b, ty], [0, 0, 1]] with a, b in {1, -1}.   *)
(* Without WARP_INVERSE_MAP the destination pixel (x, y) is the source     *)
(* sample at M^-1 (x, y); a, b are their own inverses, so the source       *)
(* coordinate is (a*(x - tx), b*(y - ty)), always an integer: bilinear     *)
(* interpolation reads exactly that sample.  Coordinates outside the       *)
(* source read the constant border, 0 (BORDER_CONSTANT, the default).      *)
(***************************************************************************)
BorderSample(im, sy, sx) ==
    IF sy \in 0..(im.rows - 1) /\ sx \in 0..(im.cols - 1)
    THEN im.px[<<sy, sx>>] ELSE 0

warpPerspective(im, a, tx, b, ty, dcols, drows) ==
    [rows |-> drows, cols |-> dcols,
     px   |-> [p \in (0..(drows-1)) \X (0..(dcols-1)) |->
                 BorderSample(im, b * (p[1] - ty), a * (p[2] - tx))]]

\* Augmentation.flip
flip(im, ax) ==
    IF ax = 0
    THEN warpPerspective(im, -1, im.cols, 1, 0, im.cols, im.rows)
    ELSE warpPerspective(im, 1, 0, -1, im.rows, im.cols, im.rows)

\* a plausible slip: the slice taken for hi - lo elements whatever n
SliceLenUnclipped(n, lo, hi) == hi - lo

\* numpy basic slice a[lo:hi] of an axis of length n, 0 <= lo <= hi: the
\* bounds are clipped to n, never an IndexError.
SliceLen(n, lo, hi) == Max(0, Min(n, hi) - Min(n, lo))

\* np.random.randint(low, high): the integers low..high-1; ValueError
\* ("low >= high") when there is none.
randint(low, high) == low..(high - 1)

\* a plausible slip: uint8 arithmetic that wraps (numpy's img * 2 - 50)
wrap_cast(v) == v % (U8Max + 1)

\* cv::saturate_cast<uchar>
saturate_cast(v) == IF v < 0 THEN 0 ELSE IF v > U8Max THEN U8Max ELSE v

\* cv2.addWeighted(src1, alpha, src2, beta, gamma) on one sample
addWeighted(s1, alpha, s2, beta, gamma) ==
    saturate_cast(s1 * alpha + s2 * beta + gamma)

\* Augmentation.contrast on one sample: src2 is np.zeros(img.shape)
contrast(v) == addWeighted(v, Alpha, 0, 0, Gamma)

(***************************************************************************)
(* The shape-level methods.  Pixel content is not carried for them: each   *)
(* is modelled by the shape of the array it returns.  cv2.warpPerspective  *)
(* and cv2.warpAffine return an array of the dsize they are given,         *)
(* (cols, rows), with the channels of the source, whatever the (random)    *)
(* matrix, so the random matrix entries are not drawn.                     *)
(***************************************************************************)
Channels == 3
NoShape == <<0, 0, 0>>

warp(sh, dcols, drows) == <<drows, dcols, sh[3]>>

\* a[50:150, 50:150]
FixedWindow(sh) ==
    <<SliceLen(sh[1], WindowLo, WindowHi),
      SliceLen(sh[2], WindowLo, WindowHi), sh[3]>>

translation(sh) == FixedWindow(warp(sh, sh[2], sh[1]))
shear(sh)       == FixedWindow(warp(sh, sh[2], sh[1]))
rotate(sh)      == FixedWindow(warp(sh, sh[2], sh[1]))
skew(sh)        == FixedWindow(warp(sh, sh[2], sh[1]))
distortion(sh)  == FixedWindow(warp(sh, sh[2], sh[1]))

\* Augmentation.crop once x and y are drawn: img[y:y+100, x:x+100]
crop(sh, cx, cy) ==
    <<SliceLen(sh[1], cy, cy + CropSize),
      SliceLen(sh[2], cx, cx + CropSize), sh[3]>>

Shapes == { <<r, c, Channels>> : r \in Sides, c \in Sides }


\* Augmentation keeps no state between calls: a behaviour is one call on a
\* drawn input (two chained calls for flip), and the state holds the
\* arguments and the result of that call alone.
NoFlip   == /\ original' = NoRaster /\ img' = NoRaster
            /\ reflected_img' = NoRaster /\ axis' = 0 /\ nflips' = 0
NoShapes == /\ shape' = NoShape /\ out_shape' = NoShape /\ x' = 0 /\ y' = 0
            /\ raised' = "none"
NoSample == sample' = 0 /\ contrast_img' = 0

\* aug.flip(img, axis) on a drawn raster
Flip ==
    \E im \in Rasters, ax \in {0, 1} :
        /\ op = "none"
        /\ UNCHANGED <<splitVars, balVars>>
        /\ op' = "flip"
        /\ original' = im /\ img' = im /\ axis' = ax
        /\ reflected_img' = flip(im, ax)
        /\ nflips' = 1
        /\ NoShapes /\ NoSample

\* aug.flip(reflected_img, axis): the result flipped again, same axis
FlipAgain ==
    /\ op = "flip" /\ nflips < MaxFlips
    /\ img' = reflected_img
    /\ reflected_img' = flip(reflected_img, axis)
    /\ nflips' = nflips + 1
    /\ UNCHANGED <<op, original, axis, splitVars, balVars>>
    /\ NoShapes /\ NoSample

Returned(name, sh, res) ==
    /\ op = "none"
    /\ UNCHANGED <<splitVars, balVars>>
    /\ op' = name /\ shape' = sh /\ out_shape' = res
    /\ raised' = "none" /\ x' = 0 /\ y' = 0
    /\ NoFlip /\ NoSample

Translation == \E sh \in Shapes : Returned("translation", sh, translation(sh))
Shear       == \E sh \in Shapes : Returned("shear", sh, shear(sh))
Rotate      == \E sh \in Shapes : Returned("rotate", sh, rotate(sh))
Skew        == \E sh \in Shapes : Returned("skew", sh, skew(sh))
Distortion  == \E sh \in Shapes : Returned("distortion", sh, distortion(sh))

\* aug.crop(img): x is drawn first, then y; either draw raises ValueError
\* when its range is empty.
Crop ==
    \E sh \in Shapes :
        /\ op = "none"
        /\ UNCHANGED <<splitVars, balVars>>
        /\ op' = "crop" /\ shape' = sh
        /\ NoFlip /\ NoSample
        /\ IF randint(0, sh[2] - CropSize) = {} \/ randint(0, sh[1] - CropSize) = {}
           THEN /\ raised' = "ValueError"
                /\ out_shape' = NoShape /\ x' = 0 /\ y' = 0
           ELSE \E cx \in randint(0, sh[2] - CropSize),
                   cy \in randint(0, sh[1] - CropSize) :
                    /\ x' = cx /\ y' = cy
                    /\ out_shape' = crop(sh, cx, cy)
                    /\ raised' = "none"

\* aug.contrast(img), one sample of img
Contrast ==
    \E v \in 0..U8Max :
        /\ op = "none"
        /\ UNCHANGED <<splitVars, balVars>>
        /\ op' = "contrast"
        /\ sample' = v /\ contrast_img' = contrast(v)
        /\ NoFlip /\ NoShapes

(***************************************************************************)
(* split_dataset.py.  images/ holds one class directory and one plain      *)
(* file; the class directory holds files named "image (<n>).JPG".  A file  *)
(* name is the sequence of its characters, so that the sort key is         *)
(* computed from the name the way the script computes it.                  *)
(***************************************************************************)
MaxIndex == 27   \* images are numbered 0..MaxIndex
MaxRuns  == 2    \* runs of the script
MaxAdded == 1    \* images added between runs

ValidCount == 25 \* images[:25], images[25:]

DigitChars == <<"0", "1", "2", "3", "4", "5", "6", "7", "8", "9">>

RECURSIVE Decimal(_)
Decimal(n) ==
    IF n < 10 THEN <<DigitChars[n + 1]>>
    ELSE Append(Decimal(n \div 10), DigitChars[(n % 10) + 1])

\* the file name "image (<n>).JPG"
ImageName(n) ==
    <<"i", "m", "a", "g", "e", " ", "(">> \o Decimal(n)
        \o <<")", ".", "J", "P", "G">>

\* Path.stem: the name without its last suffix
RECURSIVE LastDot(_, _)
LastDot(s, i) == IF i = 0 \/ s[i] = "." THEN i ELSE LastDot(s, i - 1)

stem(s) ==
    LET d == LastDot(s, Len(s))
    IN  IF d <= 1 THEN s ELSE SubSeq(s, 1, d - 1)

\* str.split(sep): the fields between single occurrences of sep
RECURSIVE split(_, _)
split(s, sep) ==
    IF \A i \in 1..Len(s) : s[i] # sep THEN <<s>>
    ELSE LET i == CHOOSE j \in 1..Len(s) :
                      s[j] = sep /\ \A k \in 1..(j - 1) : s[k] # sep
         IN  <<SubSeq(s, 1, i - 1)>> \o split(SubSeq(s, i + 1, Len(s)), sep)

\* str.strip(chars): leading and trailing characters of `chars` removed
RECURSIVE strip(_, _)
strip(s, chars) ==
    IF s = <<>> THEN s
    ELSE IF s[1] \in chars THEN strip(Tail(s), chars)
    ELSE IF s[Len(s)] \in chars THEN strip(SubSeq(s, 1, Len(s) - 1), chars)
    ELSE s

DigitValue(ch) == (CHOOSE d \in 1..10 : DigitChars[d] = ch) - 1

\* int(s) for a string of decimal digits
RECURSIVE int(_)
int(s) ==
    IF Len(s) = 1 THEN DigitValue(s[1])
    ELSE 10 * int(SubSeq(s, 1, Len(s) - 1)) + DigitValue(s[Len(s)])

\* a plausible slip: int(x.stem.split(" ")[1][1]), the first digit alone
key_first_digit(name) == DigitValue(strip(split(stem(name), " ")[2], {"(", ")"})[1])

\* key=lambda x: int(x.stem.split(" ")[1].strip("()"))
key(name) == int(strip(split(stem(name), " ")[2], {"(", ")"}))

\* sorted(iterable, key=key), ascending
RECURSIVE sorted(_)
sorted(S) ==
    IF S = {} THEN <<>>
    ELSE LET m == CHOOSE a \in S : \A b \in S : key(a) <= key(b)
         IN  <<m>> \o sorted(S \ {m})

\* subdir.glob("image (*).JPG"): every file of the class directory is
\* named that way here
glob(dir) == dir

\* list[:n] and list[n:]
SliceTo(l, n)   == SubSeq(l, 1, Min(n, Len(l)))
SliceFrom(l, n) == SubSeq(l, Min(n, Len(l)) + 1, Len(l))

Range(l) == { l[i] : i \in 1..Len(l) }

ClassDir  == "Apple_healthy"
PlainFile == "README.md"
Entries   == {ClassDir, PlainFile}
is_dir(e) == e = ClassDir


\* the script starts: lines 4-9, then the for loop is entered
StartRun ==
    /\ spc = "idle" /\ runs < MaxRuns
    /\ UNCHANGED <<libVars, balVars>>
    /\ spc' = "loop"
    /\ todo' = Entries
    /\ UNCHANGED <<images_dir, train_subdir, valid_subdir, subdirs_made,
                   validation_images, training_images, runs, added>>

\* one pass of the loop body for an entry that is a directory, lines 12-29
SplitSubdir ==
    \E subdir \in todo :
        /\ spc = "loop" /\ is_dir(subdir)
        /\ UNCHANGED <<libVars, balVars>>
        /\ LET images == sorted(glob(images_dir))
           IN  /\ validation_images' = SliceTo(images, ValidCount)
               /\ training_images' = SliceFrom(images, ValidCount)
        /\ subdirs_made' = TRUE
        /\ train_subdir' = train_subdir \cup Range(training_images')
        /\ valid_subdir' = valid_subdir \cup Range(validation_images')
        /\ todo' = todo \ {subdir}
        /\ UNCHANGED <<images_dir, spc, runs, added>>

\* one pass of the loop for an entry that is no directory, line 12
SkipFile ==
    \E e \in todo :
        /\ spc = "loop" /\ ~is_dir(e)
        /\ UNCHANGED <<libVars, balVars>>
        /\ todo' = todo \ {e}
        /\ UNCHANGED <<images_dir, train_subdir, valid_subdir, subdirs_made,
                       validation_images, training_images, spc, runs, added>>

\* the for loop is exhausted and the script exits
FinishRun ==
    /\ spc = "loop" /\ todo = {}
    /\ UNCHANGED <<libVars, balVars>>
    /\ spc' = "idle"
    /\ runs' = runs + 1
    /\ UNCHANGED <<images_dir, train_subdir, valid_subdir, subdirs_made,
                   validation_images, training_images, todo, added>>

\* the environment: an image is added to the class between two runs
AddImage ==
    /\ spc = "idle" /\ added < MaxAdded
    /\ UNCHANGED <<libVars, balVars>>
    /\ \E i \in 0..MaxIndex :
          /\ ImageName(i) \notin images_dir
          /\ images_dir' = images_dir \cup {ImageName(i)}
    /\ added' = added + 1
    /\ UNCHANGED <<train_subdir, valid_subdir, subdirs_made,
                   validation_images, training_images, spc, todo, runs>>

\* split_dataset.py is about to run on a class of images 1..n
SplitInit ==
    /\ \E n \in 0..(MaxIndex - 1) : images_dir = { ImageName(i) : i \in 1..n }
    /\ train_subdir = {} /\ valid_subdir = {}
    /\ subdirs_made = FALSE
    /\ validation_images = <<>> /\ training_images = <<>>
    /\ spc = "idle" /\ todo = {}
    /\ runs = 0 /\ added = 0
    /\ op = "none"
    /\ original = NoRaster /\ img = NoRaster /\ reflected_img = NoRaster
    /\ axis = 0 /\ nflips = 0
    /\ shape = NoShape /\ out_shape = NoShape
    /\ x = 0 /\ y = 0
    /\ raised = "none"
    /\ sample = 0 /\ contrast_img = 0
    /\ listing = [c \in Classes |-> <<>>]
    /\ out = [c \in Classes |-> <<>>]
    /\ bpc = "idle"
    /\ pos = 1 /\ step = 0
    /\ len_largest_directory = 0
    /\ applied = [c \in Classes |-> <<>>]

SplitNext == StartRun \/ SplitSubdir \/ SkipFile \/ FinishRun \/ AddImage


(***************************************************************************)
(* Augmentation.py, directory mode (lines 257-323).  The input root holds  *)
(* the class directories of Classes; a *.JPG file is named by its stem, a  *)
(* sequence of the "_"-separated parts: <<"img", 3>> is img3.JPG, and      *)
(* <<"img", 1, "Flip">> is img1_Flip.JPG.  augmented_directory/ is empty   *)
(* when the run starts.                                                    *)
(***************************************************************************)
MaxImages == 11   \* a class of the input root holds 0..MaxImages images

PlainStem(i) == <<"img", i>>
DerivedStem  == <<"img", 1, "Flip">>

InsertAt(l, p, e) == SubSeq(l, 1, p) \o <<e>> \o SubSeq(l, p + 1, Len(l))

PlainListing(n) == [i \in 1..n |-> PlainStem(i)]

\* The listings drawn: img1..imgn in this order (plain stems are
\* interchangeable), alone or with img1_Flip.JPG at any place among them.
Listings ==
    { PlainListing(n) : n \in 0..MaxImages }
    \cup UNION { { InsertAt(PlainListing(n), p, DerivedStem) : p \in 0..n } :
                 n \in 1..(MaxImages - 1) }

\* a plausible slip: the order of single-image mode, translation first
OrderWithTranslation ==
    <<"translation", "flip", "rotate", "blur", "crop", "distortion",
      "shear", "skew">>

\* the order of the eight guarded augment calls, lines 292-323
AugmentationOrder ==
    <<"flip", "rotate", "blur", "crop", "distortion", "shear", "skew",
      "contrast">>

\* str.title() of an augmentation type
title(t) ==
    CASE t = "translation" -> "Translation"
      [] t = "flip"        -> "Flip"
      [] t = "rotate"      -> "Rotate"
      [] t = "blur"        -> "Blur"
      [] t = "crop"        -> "Crop"
      [] t = "distortion"  -> "Distortion"
      [] t = "shear"       -> "Shear"
      [] t = "skew"        -> "Skew"
      [] t = "contrast"    -> "Contrast"

\* file contents: the pixels of a source image, or of an augmentation of one
Orig(name)   == <<"orig", name>>
Gen(name, t) == <<"gen", name, t>>

\* plt.imsave(Path(dir, name), content): creates or replaces the file
imsave(dir, name, content) ==
    [n \in (DOMAIN dir) \cup {name} |-> IF n = name THEN content ELSE dir[n]]

\* len(list(save_path.iterdir()))
count(dir) == Cardinality(DOMAIN dir)

\* augment(image, save_path, ..., augmentation_type), lines 227-234
augment(image, dir, augmentation_type) ==
    imsave(dir, Append(image, title(augmentation_type)),
           Gen(image, augmentation_type))

\* a plausible slip: <= for <
at_most_target(n, largest) == n <= largest

\* the guard of every augment call:
\* len(list(save_path.iterdir())) < len_largest_directory
below_target(n, largest) == n < largest

\* the images in the order both loops reach them: class by class, each
\* class in listing order
RECURSIVE WalkFrom(_)
WalkFrom(k) ==
    IF k > Len(ClassOrder) THEN <<>>
    ELSE [i \in 1..Len(listing[ClassOrder[k]]) |-> <<ClassOrder[k], i>>]
             \o WalkFrom(k + 1)

Walk == WalkFrom(1)

SetMax(S) == CHOOSE m \in S : \A n \in S : n <= m


\* one pass of the copy loop, lines 259-265
CopyImage ==
    /\ bpc = "copy" /\ pos <= Len(Walk)
    /\ UNCHANGED <<libVars, splitVars>>
    /\ LET c    == Walk[pos][1]
           name == listing[c][Walk[pos][2]]
       IN  out' = [out EXCEPT ![c] = imsave(@, name, Orig(name))]
    /\ pos' = pos + 1
    /\ UNCHANGED <<listing, bpc, step, len_largest_directory, applied>>

\* lines 267-272, after the copy loop: max() over the directories of
\* augmented_directory/ raises when there is none
LargestDirectory ==
    /\ bpc = "copy" /\ pos > Len(Walk)
    /\ UNCHANGED <<libVars, splitVars>>
    /\ LET dirs == { c \in Classes : DOMAIN out[c] # {} }
       IN  IF dirs = {}
           THEN /\ bpc' = "failed"
                /\ UNCHANGED <<pos, len_largest_directory>>
           ELSE /\ bpc' = "augment"
                /\ len_largest_directory' = SetMax({ count(out[c]) : c \in dirs })
                /\ pos' = 1
    /\ UNCHANGED <<listing, out, step, applied>>

\* lines 284-290: the image is saved again under its own name
Resave ==
    /\ bpc = "augment" /\ pos <= Len(Walk) /\ step = 0
    /\ UNCHANGED <<libVars, splitVars>>
    /\ LET c    == Walk[pos][1]
           name == listing[c][Walk[pos][2]]
       IN  out' = [out EXCEPT ![c] = imsave(@, name, Orig(name))]
    /\ step' = 1
    /\ UNCHANGED <<listing, bpc, pos, len_largest_directory, applied>>

\* one of the eight guarded calls of lines 292-323
AugmentStep ==
    /\ bpc = "augment" /\ pos <= Len(Walk) /\ step >= 1
    /\ UNCHANGED <<libVars, splitVars>>
    /\ LET c    == Walk[pos][1]
           i    == Walk[pos][2]
           name == listing[c][i]
           augmentation_type == AugmentationOrder[step]
       IN  IF below_target(count(out[c]), len_largest_directory)
           THEN /\ out' = [out EXCEPT ![c] = augment(name, @, augmentation_type)]
                /\ applied' = [applied EXCEPT ![c][i] = Append(@, augmentation_type)]
           ELSE UNCHANGED <<out, applied>>
    /\ IF step = Len(AugmentationOrder)
       THEN pos' = pos + 1 /\ step' = 0
       ELSE pos' = pos /\ step' = step + 1
    /\ UNCHANGED <<listing, bpc, len_largest_directory>>

\* the outer loop is exhausted and the script exits
Finish ==
    /\ bpc = "augment" /\ pos > Len(Walk)
    /\ UNCHANGED <<libVars, splitVars>>
    /\ bpc' = "done"
    /\ UNCHANGED <<listing, out, pos, step, len_largest_directory, applied>>


(***************************************************************************)
(* The specifications.                                                     *)
(***************************************************************************)
\* Before any call, run or copy: the library has been called with nothing,
\* images/, training/, validation/ and augmented_directory/ are empty.
TransformInit ==
    /\ op = "none"
    /\ original = NoRaster /\ img = NoRaster /\ reflected_img = NoRaster
    /\ axis = 0 /\ nflips = 0
    /\ shape = NoShape /\ out_shape = NoShape
    /\ x = 0 /\ y = 0
    /\ raised = "none"
    /\ sample = 0 /\ contrast_img = 0
    /\ images_dir = {} /\ train_subdir = {} /\ valid_subdir = {}
    /\ subdirs_made = FALSE
    /\ validation_images = <<>> /\ training_images = <<>>
    /\ spc = "idle" /\ todo = {} /\ runs = 0 /\ added = 0
    /\ listing = [c \in Classes |-> <<>>]
    /\ out = [c \in Classes |-> <<>>]
    /\ bpc = "idle"
    /\ pos = 1 /\ step = 0
    /\ len_largest_directory = 0
    /\ applied = [c \in Classes |-> <<>>]

TransformNext ==
    \/ Flip \/ FlipAgain
    \/ Translation \/ Shear \/ Rotate \/ Skew \/ Distortion
    \/ Crop
    \/ Contrast

\* Augmentation.py <root> is about to run on an input root
BalInit ==
    /\ listing \in [Classes -> Listings]
    /\ out = [c \in Classes |-> <<>>]
    /\ bpc = "copy"
    /\ pos = 1 /\ step = 0
    /\ len_largest_directory = 0
    /\ applied = [c \in Classes |-> [i \in 1..Len(listing[c]) |-> <<>>]]
    /\ op = "none"
    /\ original = NoRaster /\ img = NoRaster /\ reflected_img = NoRaster
    /\ axis = 0 /\ nflips = 0
    /\ shape = NoShape /\ out_shape = NoShape
    /\ x = 0 /\ y = 0
    /\ raised = "none"
    /\ sample = 0 /\ contrast_img = 0
    /\ images_dir = {} /\ train_subdir = {} /\ valid_subdir = {}
    /\ subdirs_made = FALSE
    /\ validation_images = <<>> /\ training_images = <<>>
    /\ spc = "idle" /\ todo = {} /\ runs = 0 /\ added = 0

BalanceNext == CopyImage \/ LargestDirectory \/ Resave \/ AugmentStep \/ Finish

SpecTransform == TransformInit /\ [][TransformNext]_vars

SpecSplit == SplitInit /\ [][SplitNext]_vars

SpecBalance == BalInit /\ [][BalanceNext]_vars

(***************************************************************************)
(* The claims.                                                             *)
(***************************************************************************)
SourceCount(c) == Cardinality(Range(listing[c]))

\* C1: during and after a directory-mode run no output class directory
\* holds more files than the target, and the target is the file count of
\* the largest class directory as it was once the originals were copied.
C1_NeverAboveTarget ==
    bpc \in {"augment", "done"} =>
        /\ \A c \in Classes : count(out[c]) <= len_largest_directory
        /\ len_largest_directory = SetMax({ SourceCount(c) : c \in Classes })

\* C1 witness: a class was augmented up to the target in the middle of an
\* image's sequence, and the run goes on.
C1_Witness ==
    /\ bpc = "augment" /\ step >= 2
    /\ \E c \in Classes :
          /\ count(out[c]) = len_largest_directory
          /\ SourceCount(c) < len_largest_directory
          /\ pos <= Len(Walk) /\ Walk[pos][1] = c
          /\ Len(applied[c][Walk[pos][2]]) \in 1..(step - 2)

\* C2: when the run is finished every output class directory holds exactly
\* the target count.
C2_AllReachTarget ==
    bpc = "done" =>
        \A c \in Classes :
            DOMAIN out[c] # {} => count(out[c]) = len_largest_directory

FixedOrder ==
    <<"flip", "rotate", "blur", "crop", "distortion", "shear", "skew",
      "contrast">>

IsPrefix(p, l) == Len(p) <= Len(l) /\ p = SubSeq(l, 1, Len(p))

C9_OriginalsPreserved ==
    bpc = "done" =>
        \A c \in Classes :
            /\ \A i \in DOMAIN listing[c] :
                  /\ listing[c][i] \in DOMAIN out[c]
                  /\ out[c][listing[c][i]] = Orig(listing[c][i])
            /\ SourceCount(c) = len_largest_directory =>
                  \A n \in DOMAIN out[c] : out[c][n][1] = "orig"

\* C3: flipping twice along the same axis returns the original raster,
\* first column and first row included.
C3_FlipInvolution ==
    (op = "flip" /\ nflips = 2) => reflected_img = original

\* C5: for an input of at least 100 x 100 crop returns a 100 x 100 x 3
\* array, with an origin x in [0, width-100), y in [0, height-100) and the
\* window inside the input.
C5_CropShape ==
    (op = "crop" /\ shape[1] >= 100 /\ shape[2] >= 100) =>
        /\ raised = "none"
        /\ out_shape = <<100, 100, 3>>
        /\ x \in 0..(shape[2] - 100 - 1) /\ y \in 0..(shape[1] - 100 - 1)
        /\ x + 100 <= shape[2] /\ y + 100 <= shape[1]

\* C6: contrast maps the sample v to min(255, max(0, 2*v - 50)).
C6_ContrastClamps ==
    op = "contrast" => contrast_img = Min(255, Max(0, 2 * sample - 50))

\* C6 witness: 200 gives 255 where wrapping would give 94.
C6_Witness == op = "contrast" /\ sample = 200 /\ contrast_img = 255

WindowOps == {"translation", "shear", "rotate", "skew", "distortion"}

\* C7 as claimed: the fixed-window methods return 100 x 100 x 3 for an
\* input of at least 150 x 150, and fail on a smaller one.
C7_WindowOrFailure ==
    op \in WindowOps =>
        IF shape[1] >= 150 /\ shape[2] >= 150
        THEN raised = "none" /\ out_shape = <<100, 100, 3>>
        ELSE raised # "none"

Clipped(n) == IF n >= 150 THEN 100 ELSE IF n > 50 THEN n - 50 ELSE 0

\* C7 amended: the fixed-window methods never fail; they return
\* 100 x 100 x 3 for an input of at least 150 x 150, and for a smaller one
\* the part of the window that lies inside the input.
C7_WindowClipped ==
    op \in WindowOps =>
        /\ raised = "none"
        /\ out_shape = <<Clipped(shape[1]), Clipped(shape[2]), 3>>

\* C7 witness: an undersized input comes back smaller, without failure.
C7_Witness ==
    /\ op = "distortion" /\ raised = "none"
    /\ shape = <<149, 150, 3>> /\ out_shape = <<99, 100, 3>>

Indexes == { i \in 0..(MaxIndex + 1) : ImageName(i) \in images_dir }

Smallest(k) == { i \in Indexes : Cardinality({ j \in Indexes : j < i }) < k }

\* C4: once a run has handled a class of N images, validation holds the
\* min(N, 25) images of smallest index, training the other N - min(N, 25),
\* nothing else on a first run, and the images are still in the source.
C4_SplitCounts ==
    (spc = "loop" /\ ClassDir \notin todo) =>
        LET N == Cardinality(images_dir)
            k == IF N < 25 THEN N ELSE 25
            first == { ImageName(i) : i \in Smallest(k) }
        IN  /\ Len(validation_images) = k
            /\ Len(training_images) = N - k
            /\ Range(validation_images) = first
            /\ Range(training_images) = images_dir \ first
            /\ first \subseteq valid_subdir
            /\ (images_dir \ first) \subseteq train_subdir
            /\ runs = 0 => valid_subdir = first /\ train_subdir = images_dir \ first
            /\ subdirs_made

\* C4 witness: a class of 26 images, one of them added before the run, whose
\* 26th goes to training.
C4_Witness ==
    /\ spc = "loop" /\ ClassDir \notin todo
    /\ Cardinality(images_dir) = 26 /\ added = 1
    /\ Len(validation_images) = 25 /\ Len(training_images) = 1

\* C10: training/<class> and validation/<class> never hold a file of the
\* same name.
C10_Disjoint == train_subdir \cap valid_subdir = {}

=============================================================================
